---------------------------- MODULE Spec2Model ----------------------------
(***************************************************************************)
(* A model of src/main.ts: the bounding box, the entity and the game       *)
(* (world) classes, and the fixed-timestep scheduler `loop`.               *)
(*                                                                         *)
(* Numbers.  A JavaScript number is modelled as an exact rational in fixed *)
(* point: the integer n stands for n / Scale.  Scale is chosen so that     *)
(* DT = 1/60, MAX_FRAME_TIME = 1/4 and the division of a timestamp by 1000 *)
(* are all exact for the inputs enumerated below.  Rounding of IEEE        *)
(* doubles is therefore not modelled.                                      *)
(***************************************************************************)
EXTENDS Integers, Sequences, FiniteSets

VARIABLES
    previousTime,   \* `let previousTime` (main.ts:180), milliseconds
    accumulator,    \* `let accumulator` (main.ts:181), seconds
    currentTime,    \* parameter of the running (or last) call of loop
    frameTime,      \* `const frameTime` of the running (or last) call of loop
    pc,             \* position of the control flow inside loop
    game,           \* the Game object: [tiles, entities]
    trace,          \* calls made by the running (or last) call of loop
    accBefore,      \* accumulator on entry of the running (or last) call
    frames,         \* number of calls of loop so far
    pendingFrames,  \* frame callbacks registered with the host, not yet fired
    twin,           \* a second run of the scheduler (a record of the above)
    boxA, boxB,     \* two BoundingBox objects
    hit,            \* result of the last intersects calls on them
    lastCall,       \* the last call made on the Game or one of its entities
    before,         \* the Game as it was when that call was entered
    calls,          \* number of such calls so far
    callLog         \* the calls made inside that call, in order

schedVars == <<previousTime, accumulator, currentTime, frameTime, pc, trace,
               accBefore, frames, pendingFrames>>
bbVars == <<boxA, boxB, hit>>
apiVars == <<lastCall, before, calls, callLog>>
vars == <<schedVars, game, twin, bbVars, apiVars>>

---------------------------------------------------------------------------
(* Numbers *)

Scale == 3000

Num(n) == n * Scale

\* a * b for two fixed-point numbers
Mul(a, b) == (a * b) \div Scale

Min(a, b) == IF a <= b THEN a ELSE b
Max(a, b) == IF a >= b THEN a ELSE b

MAX_FRAME_TIME == Scale \div 4
DT == Scale \div 60

---------------------------------------------------------------------------
(* class Vector, class BoundingBox *)

Vector(x, y) == [x |-> x, y |-> y]

BoundingBox(x, y, width, height) ==
    [x |-> x, y |-> y, width |-> width, height |-> height]

setPosition(bb, x, y) == [bb EXCEPT !.x = x, !.y = y]

setSize(bb, width, height) == [bb EXCEPT !.width = width, !.height = height]

right(bb) == bb.x + bb.width

bottom(bb) == bb.y + bb.height

\* variants of intersects: the y axis forgotten, a wrong operand, and
\* non-strict overlap
intersectsXOnly(this, other) ==
    ~(this.x        >= right(other)  \/
      right(this)   <= other.x)

intersectsAsym(this, other) ==
    ~(this.x        >= other.x       \/
      right(this)   <= other.x       \/
      this.y        >= bottom(other) \/
      bottom(this)  <= other.y)

intersectsTouching(this, other) ==
    ~(this.x        >  right(other)  \/
      right(this)   <  other.x       \/
      this.y        >  bottom(other) \/
      bottom(this)  <  other.y)

\* main.ts:53-58
intersects(this, other) ==
    ~(this.x        >= right(other)  \/
      right(this)   <= other.x       \/
      this.y        >= bottom(other) \/
      bottom(this)  <= other.y)

---------------------------------------------------------------------------
(* class Tile *)

Tile_size == Num(24)

Tile(id, row, col) ==
    [id |-> id, row |-> row, col |-> col,
     x |-> col * Tile_size, y |-> row * Tile_size]

\* The grid of tiles of a rectangular map, rows and columns 0-indexed as in
\* the source (the sequences are 1-indexed).
TileGrid(map) ==
    [r \in 1..Len(map) |->
        [c \in 1..Len(map[r]) |-> Tile(map[r][c], r - 1, c - 1)]]

---------------------------------------------------------------------------
(* class Entity (the base class: no subclass overrides anything) *)

\* `colliding` is what getCollidingEntities() of the entity's class returns:
\* the base class returns [] (main.ts:172-174)
Entity(colorString, bb, velocity) ==
    [colorString |-> colorString, bb |-> bb, velocity |-> velocity,
     finished |-> FALSE, colliding |-> <<>>]

\* an entity of a subclass that overrides getCollidingEntities
Collider(e, others) == [e EXCEPT !.colliding = others]

\* variant: the velocity added without the time step
updatePositionNoDt(e, dt) ==
    [e EXCEPT !.bb.x = @ + e.velocity.x,
              !.bb.y = @ + e.velocity.y]

\* main.ts:156-159
updatePosition(e, dt) ==
    [e EXCEPT !.bb.x = @ + Mul(e.velocity.x, dt),
              !.bb.y = @ + Mul(e.velocity.y, dt)]

getCollidingEntities(e) == e.colliding

onEntityCollide(e, sender) == e

\* A method run on an entity: the entity it leaves and the calls made so
\* far, each hook call with the position the entity had when it was made.
Ran(e, log) == [e |-> e, log |-> log]

updatePositionRun(r, dt) ==
    Ran(updatePosition(r.e, dt), Append(r.log, <<"updatePosition", dt>>))

\* the forEach of handleEvents (main.ts:162)
RECURSIVE forEachCollide(_, _)
forEachCollide(r, senders) ==
    IF senders = <<>> THEN r
    ELSE forEachCollide(
            Ran(onEntityCollide(r.e, Head(senders)),
                Append(r.log, <<"onEntityCollide", Head(senders),
                                r.e.bb.x, r.e.bb.y>>)),
            Tail(senders))

\* main.ts:161-163
handleEventsRun(r) ==
    forEachCollide(
        Ran(r.e, Append(r.log, <<"getCollidingEntities", r.e.bb.x, r.e.bb.y>>)),
        getCollidingEntities(r.e))

handleEvents(e) == handleEventsRun(Ran(e, <<>>)).e

\* variant: the events handled before the position is updated
Entity_updateRunEventsFirst(r, dt) ==
    updatePositionRun(handleEventsRun(r), dt)

\* main.ts:151-154
Entity_updateRun(r, dt) == handleEventsRun(updatePositionRun(r, dt))

Entity_update(e, dt) == Entity_updateRun(Ran(e, <<>>), dt).e

dieRun(r) == Ran([r.e EXCEPT !.finished = TRUE], Append(r.log, <<"die">>))

die(e) == [e EXCEPT !.finished = TRUE]

---------------------------------------------------------------------------
(* class Game *)

Game(tiles, entities) == [tiles |-> tiles, entities |-> entities]

\* the body of the forEach callback of Game.update, with the cull written
\* as a flag recomputed on every tick
cullRecomputed(g, e, dt) ==
    LET u == Entity_update(e, dt)
    IN  [u EXCEPT !.finished = (u.bb.y > Len(g.tiles) * Tile_size)]

\* ... with the cull at or below the line
cullAtLine(g, e, dt) ==
    LET u == Entity_update(e, dt)
    IN  IF u.bb.y >= Len(g.tiles) * Tile_size THEN die(u) ELSE u

\* the body of the forEach callback of Game.update (main.ts:93-98)
updateAndCull(g, e, dt) ==
    LET u == Entity_update(e, dt)
    IN  IF u.bb.y > Len(g.tiles) * Tile_size THEN die(u) ELSE u

\* variant: an update that drops the entities it finds dead
Game_updateCompacting(g, dt) ==
    [g EXCEPT !.entities =
        SelectSeq([i \in DOMAIN g.entities |->
                      updateAndCull(g, g.entities[i], dt)],
                  LAMBDA e : ~e.finished)]

Game_update(g, dt) ==
    [g EXCEPT !.entities =
        [i \in DOMAIN g.entities |-> updateAndCull(g, g.entities[i], dt)]]

\* the calls of a log, each marked with the index i of its entity
Marked(i, log) == [k \in 1..Len(log) |-> <<i>> \o log[k]]

\* the calls made by the forEach callback of Game.update on entity e
\* (main.ts:93-98): the update, the test of line 95 with the y it reads,
\* and the die it may make
updateAndCullLog(g, e, dt) ==
    LET u == Entity_updateRun(Ran(e, <<>>), dt)
        t == Ran(u.e, Append(u.log, <<"cull test", u.e.bb.y>>))
    IN  (IF u.e.bb.y > Len(g.tiles) * Tile_size THEN dieRun(t) ELSE t).log

RECURSIVE Game_updateLogFrom(_, _, _)
Game_updateLogFrom(g, dt, i) ==
    IF i > Len(g.entities) THEN <<>>
    ELSE Marked(i, updateAndCullLog(g, g.entities[i], dt))
            \o Game_updateLogFrom(g, dt, i + 1)

\* the calls made by Game.update, entity after entity (main.ts:92-99)
Game_updateLog(g, dt) == Game_updateLogFrom(g, dt, 1)

\* variant: every tile that is not empty is drawn
Tile_renderNonEmpty(t) ==
    <<<<"Tile.render", t.row, t.col>>>>
        \o (IF t.id # 0
             THEN <<<<"strokeRect", t.x, t.y, Tile_size, Tile_size>>>>
             ELSE <<>>)

\* Tile.render (main.ts:128-132): the call, and the draw call it makes
Tile_render(t) ==
    <<<<"Tile.render", t.row, t.col>>>>
        \o (IF t.id = 1
             THEN <<<<"strokeRect", t.x, t.y, Tile_size, Tile_size>>>>
             ELSE <<>>)

RECURSIVE renderRow(_, _)
renderRow(row, c) ==
    IF c > Len(row) THEN <<>>
    ELSE Tile_render(row[c]) \o renderRow(row, c + 1)

RECURSIVE renderRows(_, _)
renderRows(tiles, r) ==
    IF r > Len(tiles) THEN <<>>
    ELSE renderRow(tiles[r], 1) \o renderRows(tiles, r + 1)

\* Entity.render is abstract: only the call is recorded
renderEntities(entities) ==
    [i \in 1..Len(entities) |-> <<"Entity.render", i>>]

\* variant: the entities rendered before the tiles
Game_renderLogEntitiesFirst(g) ==
    renderEntities(g.entities) \o renderRows(g.tiles, 1)

\* the calls made by Game.render (main.ts:101-104)
Game_renderLog(g) == renderRows(g.tiles, 1) \o renderEntities(g.entities)


\* Game.render changes no state of the game; the call is recorded in the
\* trace of the scheduler (main.ts:101-104)
Game_render(g) == <<"Game.render">>

---------------------------------------------------------------------------
(* Bounds and inputs *)

MaxFrames == 3     \* calls of loop in one behaviour
MaxCalls == 3      \* calls on the Game and its entities in one behaviour
MaxTicks == 120    \* calls of Game.update in the end-to-end run

\* gaps between two timestamps, in milliseconds: 0, 8 1/3, 16 2/3, 17, 20,
\* 250, 251 and 10000
Gaps == {0, Num(25) \div 3, Num(50) \div 3, Num(17), Num(20), Num(250),
         Num(251), Num(10000)}

ZeroMap3x3 == <<<<0, 0, 0>>, <<0, 0, 0>>, <<0, 0, 0>>>>
SmallMap == <<<<1, 2>>>>
MixedMap == <<<<0, 1>>, <<3, 1>>>>

Faller(y, vy) ==
    Entity("red", BoundingBox(0, y, Num(10), Num(10)), Vector(0, Num(vy)))

\* the games the scheduler is run on
LoopWorlds ==
    { Game(TileGrid(SmallMap), <<>>),
      Game(TileGrid(ZeroMap3x3), <<Faller(Num(71), 48)>>) }

---------------------------------------------------------------------------
(* function loop (main.ts:180-202), on a record s of the scheduler state *)

InitRun(g) ==
    [previousTime |-> 0, accumulator |-> 0, currentTime |-> 0,
     frameTime |-> 0, pc |-> "pending", game |-> g, trace |-> <<>>,
     accBefore |-> 0, frames |-> 0, pendingFrames |-> 1]

\* variant: the frame time without its clamp
frameTimeUnclamped(current, previous) == (current - previous) \div 1000

\* main.ts:187-188; the timestamps are milliseconds
frameTimeOf(current, previous) ==
    Min((current - previous) \div 1000, MAX_FRAME_TIME)

\* the callback fires with timestamp t: loop is entered (main.ts:187-189)
loopEnter(s, t) ==
    [s EXCEPT !.currentTime = t,
              !.frameTime = frameTimeOf(t, s.previousTime),
              !.accBefore = s.accumulator,
              !.accumulator = @ + frameTimeOf(t, s.previousTime),
              !.trace = <<>>,
              !.frames = @ + 1,
              !.pendingFrames = @ - 1,
              !.pc = "while"]

\* variants of the loop condition: a strict comparison, and a loop that
\* skips a game without entities
whileCondStrict(s) == s.accumulator > DT

whileCondGame(s) == s.accumulator >= DT /\ s.game.entities # <<>>

\* main.ts:191
whileCond(s) == s.accumulator >= DT

\* variant: the render made inside the while loop
loopTickRendering(s) ==
    [s EXCEPT !.accumulator = @ - DT,
              !.game = Game_update(@, DT),
              !.trace = Append(Append(@, <<"Game.update", DT>>),
                               Game_render(s.game))]

\* one turn of the while loop (main.ts:192-193)
loopTick(s) ==
    [s EXCEPT !.accumulator = @ - DT,
              !.game = Game_update(@, DT),
              !.trace = Append(@, <<"Game.update", DT>>)]

\* main.ts:196
loopRender(s) ==
    [s EXCEPT !.trace = Append(@, Game_render(s.game)),
              !.pc = "rendered"]

\* variants: previousTime left as it was, and no next frame requested
loopScheduleStale(s) ==
    [s EXCEPT !.trace = Append(@, <<"requestAnimationFrame">>),
              !.pendingFrames = @ + 1,
              !.pc = "pending"]

loopScheduleNone(s) ==
    [s EXCEPT !.previousTime = s.currentTime,
              !.pc = "pending"]

\* main.ts:198-201; pc = "pending": no call of loop is running
loopSchedule(s) ==
    [s EXCEPT !.previousTime = s.currentTime,
              !.trace = Append(@, <<"requestAnimationFrame">>),
              !.pendingFrames = @ + 1,
              !.pc = "pending"]

\* the next step of a call of loop that has been entered
loopStep(s) ==
    CASE s.pc = "while" /\ whileCond(s)  -> loopTick(s)
      [] s.pc = "while" /\ ~whileCond(s) -> loopRender(s)
      [] s.pc = "rendered"               -> loopSchedule(s)
      [] OTHER                           -> s

---------------------------------------------------------------------------
(* The program: the scheduler driven by the host's frame callbacks *)

Run ==
    [previousTime |-> previousTime, accumulator |-> accumulator,
     currentTime |-> currentTime, frameTime |-> frameTime, pc |-> pc,
     game |-> game, trace |-> trace, accBefore |-> accBefore,
     frames |-> frames, pendingFrames |-> pendingFrames]

Install(s) ==
    /\ previousTime' = s.previousTime
    /\ accumulator' = s.accumulator
    /\ currentTime' = s.currentTime
    /\ frameTime' = s.frameTime
    /\ pc' = s.pc
    /\ game' = s.game
    /\ trace' = s.trace
    /\ accBefore' = s.accBefore
    /\ frames' = s.frames
    /\ pendingFrames' = s.pendingFrames

NoBox == BoundingBox(0, 0, 0, 0)

InitRest ==
    /\ boxA = NoBox
    /\ boxB = NoBox
    /\ hit = <<>>
    /\ lastCall = <<"none">>
    /\ before = game
    /\ calls = 0
    /\ callLog = <<>>

\* main has run: the first frame callback is pending (main.ts:269)
InitLoop ==
    /\ game \in LoopWorlds
    /\ previousTime = 0
    /\ accumulator = 0
    /\ currentTime = 0
    /\ frameTime = 0
    /\ pc = "pending"
    /\ trace = <<>>
    /\ accBefore = 0
    /\ frames = 0
    /\ pendingFrames = 1
    /\ InitRest

Init ==
    /\ InitLoop
    /\ twin = InitRun(game)

\* the host calls a pending frame callback with a timestamp (main.ts:199,
\* 269), when no handler is running: the timestamps never decrease
Frame ==
    /\ pc = "pending"
    /\ pendingFrames > 0
    /\ frames < MaxFrames
    /\ \E gap \in Gaps : Install(loopEnter(Run, previousTime + gap))
    /\ UNCHANGED <<twin, bbVars, apiVars>>

LoopTick ==
    /\ pc = "while"
    /\ whileCond(Run)
    /\ Install(loopTick(Run))
    /\ UNCHANGED <<twin, bbVars, apiVars>>

LoopRender ==
    /\ pc = "while"
    /\ ~whileCond(Run)
    /\ Install(loopRender(Run))
    /\ UNCHANGED <<twin, bbVars, apiVars>>

LoopSchedule ==
    /\ pc = "rendered"
    /\ Install(loopSchedule(Run))
    /\ UNCHANGED <<twin, bbVars, apiVars>>

Next == Frame \/ LoopTick \/ LoopRender \/ LoopSchedule

Spec == Init /\ [][Next]_vars

---------------------------------------------------------------------------
(* function main (main.ts:207-272), run by window.onload, then the frames *)

\* the map of main.ts:215-258
StaticMap ==
    << <<1, 1, 1, 1, 1, 1, 1, 1, 1, 1, 1, 1, 1, 1, 1, 1, 1, 1, 1, 1, 1, 1, 1, 1, 1>>,
       <<1, 0, 0, 0, 1, 0, 0, 0, 0, 0, 0, 0, 0, 0, 1, 0, 0, 0, 0, 0, 1, 0, 0, 0, 2>>,
       <<1, 0, 0, 0, 1, 0, 0, 0, 0, 0, 0, 0, 0, 0, 1, 0, 0, 0, 0, 0, 1, 0, 0, 0, 0>>,
       <<1, 0, 1, 0, 0, 0, 0, 0, 0, 0, 0, 0, 0, 0, 0, 0, 0, 0, 1, 0, 1, 0, 0, 0, 0>>,
       <<1, 0, 1, 0, 0, 0, 0, 0, 1, 0, 0, 0, 0, 1, 1, 1, 0, 0, 1, 0, 1, 0, 0, 0, 0>>,
       <<1, 0, 1, 0, 0, 0, 0, 0, 0, 0, 0, 0, 0, 0, 1, 0, 0, 0, 1, 0, 1, 1, 0, 0, 0>>,
       <<1, 0, 1, 0, 0, 0, 0, 0, 0, 0, 0, 0, 0, 0, 1, 0, 0, 0, 1, 0, 1, 0, 0, 0, 0>>,
       <<1, 0, 1, 1, 0, 0, 0, 0, 0, 0, 0, 0, 0, 0, 1, 0, 0, 0, 1, 0, 1, 0, 0, 0, 0>>,
       <<1, 0, 0, 0, 0, 0, 0, 0, 0, 0, 0, 0, 0, 0, 1, 0, 0, 1, 1, 0, 1, 1, 0, 0, 0>>,
       <<1, 0, 0, 1, 1, 0, 0, 0, 0, 0, 0, 0, 0, 0, 1, 0, 0, 0, 1, 0, 1, 0, 0, 0, 0>>,
       <<1, 0, 0, 0, 1, 0, 0, 0, 0, 1, 0, 0, 0, 0, 1, 0, 0, 0, 1, 0, 1, 0, 0, 0, 0>>,
       <<1, 0, 0, 0, 1, 1, 1, 1, 1, 1, 0, 0, 0, 0, 1, 0, 0, 0, 1, 0, 1, 1, 0, 0, 0>>,
       <<1, 0, 0, 0, 0, 0, 0, 0, 0, 0, 0, 0, 0, 1, 1, 1, 0, 0, 1, 0, 1, 0, 0, 0, 0>>,
       <<1, 1, 0, 0, 0, 0, 0, 0, 0, 0, 0, 0, 0, 0, 0, 0, 0, 0, 1, 0, 1, 0, 0, 0, 0>>,
       <<1, 1, 1, 1, 1, 1, 1, 1, 1, 1, 1, 1, 1, 1, 1, 1, 1, 1, 1, 0, 1, 1, 1, 0, 0>>,
       <<1, 0, 0, 0, 0, 0, 0, 0, 0, 0, 0, 0, 0, 0, 0, 0, 0, 0, 0, 0, 0, 0, 1, 0, 0>>,
       <<1, 0, 0, 0, 0, 0, 0, 0, 0, 0, 0, 0, 0, 0, 0, 0, 0, 0, 0, 0, 0, 0, 1, 0, 0>>,
       <<1, 0, 0, 0, 0, 0, 0, 0, 0, 0, 0, 0, 0, 0, 0, 0, 0, 0, 0, 0, 0, 0, 1, 1, 0>>,
       <<1, 0, 0, 0, 0, 0, 0, 0, 0, 0, 0, 0, 0, 0, 0, 0, 0, 0, 0, 0, 0, 0, 0, 0, 0>>,
       <<1, 0, 0, 0, 0, 0, 0, 0, 1, 0, 0, 0, 0, 0, 0, 0, 0, 0, 0, 0, 0, 0, 0, 0, 0>>,
       <<1, 1, 0, 0, 0, 0, 0, 0, 0, 0, 0, 0, 0, 0, 0, 0, 0, 0, 0, 0, 0, 0, 1, 1, 0>>,
       <<1, 0, 0, 0, 0, 0, 0, 0, 0, 0, 0, 0, 0, 0, 0, 1, 0, 0, 0, 0, 0, 0, 1, 0, 0>>,
       <<1, 0, 0, 0, 0, 0, 0, 0, 0, 0, 0, 0, 0, 0, 0, 0, 0, 0, 0, 0, 0, 0, 1, 0, 0>>,
       <<1, 1, 0, 0, 0, 0, 0, 0, 0, 0, 0, 0, 0, 0, 0, 0, 0, 0, 0, 0, 0, 0, 1, 0, 0>>,
       <<1, 0, 0, 0, 0, 0, 0, 0, 0, 0, 0, 0, 0, 0, 0, 0, 0, 0, 0, 0, 0, 0, 1, 0, 0>>,
       <<1, 0, 0, 0, 0, 0, 0, 0, 0, 0, 0, 0, 0, 0, 1, 0, 0, 0, 0, 0, 0, 0, 1, 0, 0>>,
       <<1, 0, 0, 0, 0, 0, 0, 1, 0, 0, 0, 0, 0, 0, 0, 0, 0, 0, 0, 0, 0, 1, 1, 0, 0>>,
       <<0, 0, 0, 0, 0, 0, 0, 0, 0, 0, 0, 0, 0, 0, 0, 0, 0, 0, 0, 0, 0, 0, 0, 0, 0>>,
       <<0, 0, 0, 0, 0, 0, 0, 0, 0, 0, 0, 0, 0, 0, 0, 0, 0, 0, 0, 0, 0, 0, 0, 0, 0>>,
       <<0, 0, 0, 0, 0, 0, 0, 0, 0, 0, 0, 0, 0, 0, 0, 0, 0, 0, 0, 0, 0, 0, 0, 0, 0>>,
       <<0, 0, 0, 0, 0, 0, 0, 0, 0, 0, 0, 0, 0, 0, 0, 0, 0, 0, 0, 0, 0, 0, 0, 0, 0>>,
       <<0, 0, 0, 0, 0, 0, 0, 0, 0, 0, 0, 0, 0, 0, 0, 0, 0, 0, 0, 0, 0, 0, 0, 0, 0>>,
       <<0, 0, 0, 0, 0, 0, 0, 0, 0, 0, 0, 0, 0, 0, 0, 0, 0, 0, 0, 0, 0, 0, 0, 0, 0>>,
       <<0, 0, 0, 0, 0, 0, 0, 0, 0, 0, 0, 0, 0, 0, 0, 0, 0, 0, 0, 0, 0, 0, 0, 0, 0>>,
       <<0, 0, 0, 0, 0, 0, 0, 0, 0, 0, 0, 0, 0, 0, 0, 0, 0, 0, 0, 0, 0, 0, 0, 0, 0>>,
       <<0, 0, 0, 0, 0, 0, 0, 0, 0, 0, 0, 0, 0, 0, 0, 0, 0, 0, 0, 0, 0, 0, 0, 0, 0>>,
       <<0, 0, 0, 0, 0, 0, 0, 0, 0, 0, 0, 0, 0, 0, 0, 0, 0, 0, 0, 0, 0, 0, 0, 0, 0>>,
       <<0, 0, 0, 0, 0, 0, 0, 0, 0, 0, 0, 0, 0, 0, 0, 0, 0, 0, 0, 0, 0, 0, 0, 0, 0>>,
       <<0, 0, 0, 0, 0, 0, 0, 0, 0, 0, 0, 0, 0, 0, 0, 0, 0, 0, 0, 0, 0, 0, 0, 0, 0>>,
       <<0, 0, 0, 0, 0, 0, 0, 0, 0, 0, 0, 0, 0, 0, 0, 0, 0, 0, 0, 0, 0, 0, 0, 0, 0>>,
       <<0, 0, 0, 0, 0, 0, 0, 0, 0, 0, 0, 0, 0, 0, 0, 0, 0, 0, 0, 0, 0, 0, 0, 0, 0>>,
       <<0, 0, 0, 0, 0, 0, 0, 0, 0, 0, 0, 0, 0, 0, 0, 0, 0, 0, 0, 0, 0, 0, 0, 0, 0>> >>

\* the loops of main.ts:262-267, from row r of the map on: the tiles of the
\* map's row are pushed onto the last row of tiles, then an empty row is
\* pushed onto tiles
RECURSIVE mainRows(_, _, _)
mainRows(map, tiles, r) ==
    IF r > Len(map) THEN tiles
    ELSE mainRows(map,
                  Append([tiles EXCEPT ![r] =
                             @ \o [c \in 1..Len(map[r]) |->
                                      Tile(map[r][c], r - 1, c - 1)]],
                         <<>>),
                  r + 1)

\* main.ts:260-267: tiles starts as [[]]
mainTiles(map) == mainRows(map, <<<<>>>>, 1)

NoGame == Game(<<>>, <<>>)

\* the page is loaded and main has not run yet
InitMain ==
    /\ pc = "unloaded"
    /\ game = NoGame
    /\ previousTime = 0
    /\ accumulator = 0
    /\ currentTime = 0
    /\ frameTime = 0
    /\ trace = <<>>
    /\ accBefore = 0
    /\ frames = 0
    /\ pendingFrames = 0
    /\ twin = InitRun(NoGame)
    /\ InitRest

\* window.onload calls main: the tiles are built, and the first frame is
\* requested for a loop on new Game(tiles, []) (main.ts:260-271)
Main ==
    /\ pc = "unloaded"
    /\ game' = Game(mainTiles(StaticMap), <<>>)
    /\ pendingFrames' = pendingFrames + 1
    /\ pc' = "pending"
    /\ UNCHANGED <<previousTime, accumulator, currentTime, frameTime, trace,
                   accBefore, frames, twin, bbVars, apiVars>>

NextMain == Main \/ Frame \/ LoopTick \/ LoopRender \/ LoopSchedule

SpecMain == InitMain /\ [][NextMain]_vars

---------------------------------------------------------------------------
(* Two runs of the scheduler on two games, fed the same timestamps *)

InitDet ==
    /\ InitLoop
    /\ \E g \in LoopWorlds : twin = InitRun(g)

PairFrame ==
    /\ pc = "pending"
    /\ twin.pc = "pending"
    /\ pendingFrames > 0
    /\ twin.pendingFrames > 0
    /\ frames < MaxFrames
    /\ \E gap \in Gaps :
          /\ Install(loopEnter(Run, previousTime + gap))
          /\ twin' = loopEnter(twin, previousTime + gap)
    /\ UNCHANGED <<bbVars, apiVars>>

PairStep ==
    /\ pc # "pending" \/ twin.pc # "pending"
    /\ Install(loopStep(Run))
    /\ twin' = loopStep(twin)
    /\ UNCHANGED <<bbVars, apiVars>>

NextDet == PairFrame \/ PairStep

SpecDet == InitDet /\ [][NextDet]_vars

---------------------------------------------------------------------------
(* BoundingBox driven directly: construction, setPosition, setSize and    *)
(* intersects in both directions                                           *)

BoxXs == {0, 1, 9, 10}
BoxYs == {0, 9, 10}
BoxWidths == {-1, 0, 1, 10}
BoxHeights == {0, 10}

Boxes ==
    { BoundingBox(x, y, w, h) :
        x \in BoxXs, y \in BoxYs, w \in BoxWidths, h \in BoxHeights }

InitBB ==
    /\ boxA \in Boxes
    /\ boxB \in Boxes
    /\ hit = <<>>
    /\ game = Game(TileGrid(SmallMap), <<>>)
    /\ previousTime = 0
    /\ accumulator = 0
    /\ currentTime = 0
    /\ frameTime = 0
    /\ pc = "pending"
    /\ trace = <<>>
    /\ accBefore = 0
    /\ frames = 0
    /\ pendingFrames = 1
    /\ twin = InitRun(game)
    /\ lastCall = <<"none">>
    /\ before = game
    /\ calls = 0
    /\ callLog = <<>>

\* a.intersects(b) and b.intersects(a)
CallIntersects ==
    /\ hit' = <<intersects(boxA, boxB), intersects(boxB, boxA)>>
    /\ UNCHANGED <<boxA, boxB, schedVars, game, twin, apiVars>>

CallSetPosition ==
    /\ \E x \in BoxXs, y \in BoxYs :
          \/ boxA' = setPosition(boxA, x, y) /\ boxB' = boxB
          \/ boxB' = setPosition(boxB, x, y) /\ boxA' = boxA
    /\ hit' = <<>>
    /\ UNCHANGED <<schedVars, game, twin, apiVars>>

CallSetSize ==
    /\ \E w \in BoxWidths, h \in BoxHeights :
          \/ boxA' = setSize(boxA, w, h) /\ boxB' = boxB
          \/ boxB' = setSize(boxB, w, h) /\ boxA' = boxA
    /\ hit' = <<>>
    /\ UNCHANGED <<schedVars, game, twin, apiVars>>

NextBB == CallIntersects \/ CallSetPosition \/ CallSetSize

SpecBB == InitBB /\ [][NextBB]_vars

---------------------------------------------------------------------------
(* Game and Entity driven directly through their public methods *)

Dts == {0, DT, MAX_FRAME_TIME}

\* entities placed relative to the bottom line of a grid of `rows` rows
EntityPool(rows) ==
    LET line == rows * Tile_size
    IN  { Faller(line - Mul(Num(48), DT), 48),
          Faller(line + 2 * Mul(Num(48), DT), -48),
          Faller(line + 1, 0),
          Entity("blue", BoundingBox(Num(-100), line, Num(10), Num(10)),
                 Vector(Num(24), 0)),
          Collider(Entity("green",
                          BoundingBox(Num(5), Num(5), Num(10), Num(10)),
                          Vector(Num(24), Num(48))),
                   <<2, 1>>) }

\* the games the methods are called on: on every map no entity or one
\* entity, and on the 2x2 map two different entities in either order
ApiWorlds ==
    UNION { { Game(TileGrid(map), ents) :
                ents \in {<<>>} \cup { <<e>> : e \in EntityPool(Len(map)) }
                          \cup { p \in { <<e, f>> :
                                            e \in EntityPool(Len(map)),
                                            f \in EntityPool(Len(map)) } :
                                    map = MixedMap /\ p[1] # p[2] } } :
            map \in {SmallMap, MixedMap, ZeroMap3x3} }

InitApi(worlds) ==
    /\ game \in worlds
    /\ lastCall = <<"none">>
    /\ before = game
    /\ calls = 0
    /\ callLog = <<>>
    /\ previousTime = 0
    /\ accumulator = 0
    /\ currentTime = 0
    /\ frameTime = 0
    /\ pc = "pending"
    /\ trace = <<>>
    /\ accBefore = 0
    /\ frames = 0
    /\ pendingFrames = 1
    /\ twin = InitRun(game)
    /\ boxA = NoBox
    /\ boxB = NoBox
    /\ hit = <<>>

\* a call of a method on the game (i = 0) or on its entity i
CalledWith(name, i, dt, g, log) ==
    /\ game' = g
    /\ lastCall' = <<name, i, dt>>
    /\ before' = game
    /\ calls' = calls + 1
    /\ callLog' = log
    /\ UNCHANGED <<schedVars, twin, bbVars>>

Called(name, i, dt, g) == CalledWith(name, i, dt, g, <<>>)

OnEntity(i, e) == [game EXCEPT !.entities[i] = e]

CallGameUpdate ==
    /\ calls < MaxCalls
    /\ \E dt \in Dts :
          CalledWith("Game.update", 0, dt, Game_update(game, dt),
                     Game_updateLog(game, dt))

CallGameRender ==
    /\ calls < MaxCalls
    /\ CalledWith("Game.render", 0, 0, game, Game_renderLog(game))

CallEntityUpdate ==
    /\ calls < MaxCalls
    /\ \E i \in DOMAIN game.entities, dt \in Dts :
          CalledWith("update", i, dt,
                     OnEntity(i, Entity_update(game.entities[i], dt)),
                     Marked(i, Entity_updateRun(Ran(game.entities[i], <<>>),
                                                dt).log))

CallUpdatePosition ==
    /\ calls < MaxCalls
    /\ \E i \in DOMAIN game.entities, dt \in Dts :
          Called("updatePosition", i, dt,
                 OnEntity(i, updatePosition(game.entities[i], dt)))

CallHandleEvents ==
    /\ calls < MaxCalls
    /\ \E i \in DOMAIN game.entities :
          CalledWith("handleEvents", i, 0,
                     OnEntity(i, handleEvents(game.entities[i])),
                     Marked(i, handleEventsRun(Ran(game.entities[i],
                                                   <<>>)).log))

CallDie ==
    /\ calls < MaxCalls
    /\ \E i \in DOMAIN game.entities :
          Called("die", i, 0, OnEntity(i, die(game.entities[i])))

InitGame == InitApi(ApiWorlds)

NextGame ==
    \/ CallGameUpdate
    \/ CallGameRender
    \/ CallEntityUpdate
    \/ CallUpdatePosition
    \/ CallHandleEvents
    \/ CallDie

SpecGame == InitGame /\ [][NextGame]_vars

---------------------------------------------------------------------------
(* End to end: a 3x3 all-zero grid, one entity at y = 0 falling at 48     *)
(* units per second, and Game.update(DT) called MaxTicks times             *)

E2EWorld == Game(TileGrid(ZeroMap3x3), <<Faller(0, 48)>>)

InitE2E == InitApi({E2EWorld})

TickE2E ==
    /\ calls < MaxTicks
    /\ Called("Game.update", 0, DT, Game_update(game, DT))

NextE2E == TickE2E

SpecE2E == InitE2E /\ [][NextE2E]_vars

---------------------------------------------------------------------------
(* Properties *)

NumUpdates(tr) == Cardinality({i \in DOMAIN tr : tr[i][1] = "Game.update"})

NumRenders(tr) == Cardinality({i \in DOMAIN tr : tr[i][1] = "Game.render"})

C2_FrameTimeClamp ==
    [][(pc = "pending" /\ pc' = "while")
          => accumulator' - accumulator <= MAX_FRAME_TIME]_vars

\* loop has just been entered with a gap of 10 seconds and has added 0.25 s
C2_Witness ==
    /\ pc = "while"
    /\ trace = <<>>
    /\ currentTime - previousTime = Num(10000)
    /\ accumulator - accBefore = MAX_FRAME_TIME
    /\ accumulator - accBefore < (currentTime - previousTime) \div 1000

\* C3: a call of loop renders exactly once, after all of its updates (the
\* loop condition no longer holds) and before it schedules the next frame;
\* no update follows the render.
C3_RenderOnceAfterTicks ==
    LET n == Len(trace)
        UpdatesOnly(k) == \A i \in 1..k : trace[i][1] = "Game.update"
    IN  /\ pc = "while" => UpdatesOnly(n)
        /\ pc = "rendered" =>
              /\ n >= 1
              /\ trace[n][1] = "Game.render"
              /\ UpdatesOnly(n - 1)
              /\ accumulator < DT
        /\ (pc = "pending" /\ frames > 0) =>
              /\ n >= 2
              /\ trace[n][1] = "requestAnimationFrame"
              /\ trace[n - 1][1] = "Game.render"
              /\ UpdatesOnly(n - 2)
        /\ NumRenders(trace) <= 1

\* a finished call that made several updates, then its one render
C3_Witness ==
    /\ pc = "pending"
    /\ frames > 0
    /\ NumUpdates(trace) >= 2
    /\ NumRenders(trace) = 1

\* C4: two runs from the initial state, on whatever games, fed the same
\* timestamps make the same number of game.update calls on every call of
\* loop, and each of these calls is given dt = DT.
C4_Determinism ==
    /\ (pc = "pending" /\ twin.pc = "pending") =>
          NumUpdates(trace) = NumUpdates(twin.trace)
    /\ \A i \in DOMAIN trace :
          trace[i][1] = "Game.update" => trace[i][2] = DT
    /\ \A i \in DOMAIN twin.trace :
          twin.trace[i][1] = "Game.update" => twin.trace[i][2] = DT

\* both runs have finished their second call of loop, on different games,
\* with updates made
C4_Witness ==
    /\ pc = "pending"
    /\ twin.pc = "pending"
    /\ frames >= 2
    /\ twin.frames = frames
    /\ twin.currentTime = currentTime
    /\ twin.game.entities # game.entities
    /\ NumUpdates(trace) >= 1
    /\ NumUpdates(twin.trace) >= 1

\* the two rectangles overlap with strictly positive area
PositiveArea(p, q) ==
    /\ Min(right(p), right(q)) - Max(p.x, q.x) > 0
    /\ Min(bottom(p), bottom(q)) - Max(p.y, q.y) > 0

NonNegative(p) == p.width >= 0 /\ p.height >= 0

Positive(p) == p.width > 0 /\ p.height > 0

\* C5, as claimed: for boxes of width >= 0 and height >= 0, zero-size boxes
\* included, a.intersects(b) iff the overlap has strictly positive area.
C5_AsClaimed ==
    (hit # <<>> /\ NonNegative(boxA) /\ NonNegative(boxB))
        => (hit[1] <=> PositiveArea(boxA, boxB))

\* C5, amended: for boxes of width >= 0 and height >= 0 a strictly positive
\* overlap implies a.intersects(b); the converse holds when both boxes have
\* width > 0 and height > 0.
C5_PositiveAreaIffNonDegenerate ==
    /\ (hit # <<>> /\ NonNegative(boxA) /\ NonNegative(boxB))
          => (PositiveArea(boxA, boxB) => hit[1])
    /\ (hit # <<>> /\ Positive(boxA) /\ Positive(boxB))
          => (hit[1] <=> PositiveArea(boxA, boxB))

\* two boxes of positive size that overlap, and the call made
C5_Witness ==
    /\ hit # <<>>
    /\ Positive(boxA)
    /\ Positive(boxB)
    /\ boxA # boxB
    /\ PositiveArea(boxA, boxB)
    /\ hit[1]

\* C6: a.intersects(b) = b.intersects(a) for all boxes a and b.
C6_Symmetric == hit # <<>> => hit[1] = hit[2]

\* two different boxes that intersect, asked both ways
C6_Witness ==
    /\ hit # <<>>
    /\ boxA.x # boxB.x
    /\ boxA.width # boxB.width
    /\ hit[1]
    /\ hit[2]

\* C7: boxes with a.right() = b.x or a.bottom() = b.y never intersect;
\* boxes that overlap by one unit on the x axis and share their y range do.
C7_EdgeTouching ==
    hit # <<>> =>
        /\ (right(boxA) = boxB.x \/ bottom(boxA) = boxB.y) => ~hit[1]
        /\ (/\ right(boxA) = boxB.x + 1
            /\ boxA.width >= 1
            /\ boxB.width >= 1
            /\ boxA.y = boxB.y
            /\ boxA.height = boxB.height
            /\ boxA.height > 0) => hit[1]

\* the boxes {0,0,10,10} and {10,0,10,10}, found not to intersect
C7_Witness ==
    /\ boxA = BoundingBox(0, 0, 10, 10)
    /\ boxB = BoundingBox(10, 0, 10, 10)
    /\ hit = <<FALSE, FALSE>>

\* the boxes {0,0,10,10} and {9,0,10,10}, found to intersect
C7_WitnessOverlap ==
    /\ boxA = BoundingBox(0, 0, 10, 10)
    /\ boxB = BoundingBox(9, 0, 10, 10)
    /\ hit = <<TRUE, TRUE>>

BottomLine(g) == Len(g.tiles) * Num(24)

\* C8: when Game.update returns, every entity whose y is strictly greater
\* than tiles.length * 24 is dead, and every entity that was alive before
\* the call and whose y is at most tiles.length * 24 is still alive.
C8_Culling ==
    lastCall[1] = "Game.update" =>
        \A i \in DOMAIN game.entities :
            LET e == game.entities[i]
            IN  /\ e.bb.y > BottomLine(game) => e.finished
                /\ (~before.entities[i].finished /\ e.bb.y <= BottomLine(game))
                      => ~e.finished

\* one Game.update that killed an entity below the line and left alive an
\* entity exactly on the line and outside the columns of the grid
C8_Witness ==
    /\ lastCall[1] = "Game.update"
    /\ \E i, j \in DOMAIN game.entities :
          /\ ~before.entities[i].finished
          /\ before.entities[i].bb.y <= BottomLine(game)
          /\ game.entities[i].bb.y > BottomLine(game)
          /\ game.entities[i].finished
          /\ game.entities[j].bb.y = BottomLine(game)
          /\ game.entities[j].bb.x # before.entities[j].bb.x
          /\ right(game.entities[j].bb) < 0
          /\ ~game.entities[j].finished

C10_DeathOneWay ==
    [][\A i \in DOMAIN game.entities :
          game.entities[i].finished => game'.entities[i].finished]_vars

\* an entity that was already dead before the last Game.update and is now
\* back above the bottom line, still dead
C10_Witness ==
    /\ lastCall[1] = "Game.update"
    /\ \E i \in DOMAIN game.entities :
          /\ before.entities[i].finished
          /\ before.entities[i].bb.y >= BottomLine(game)
          /\ game.entities[i].bb.y < BottomLine(game)
          /\ game.entities[i].finished


\* what no method of Entity assigns: the entity's colour, size, velocity and
\* class
Identity(e) ==
    <<e.colorString, e.velocity, e.bb.width, e.bb.height, e.colliding>>

InLog(call) == \E k \in DOMAIN callLog : callLog[k] = call

\* C11: no call changes the length, the membership or the order of the
\* entity collection, and Game.update and Game.render still update and
\* render a dead entity: its position keeps integrating velocity * dt.
C11_FlaggedNotRemoved ==
    /\ [][/\ Len(game'.entities) = Len(game.entities)
          /\ \A i \in DOMAIN game.entities :
                Identity(game'.entities[i]) = Identity(game.entities[i])]_vars
    /\ [](lastCall[1] = "Game.update" =>
            /\ Len(game.entities) = Len(before.entities)
            /\ \A i \in DOMAIN before.entities :
                  before.entities[i].finished =>
                     LET b == before.entities[i]
                         e == game.entities[i]
                     IN  /\ InLog(<<i, "updatePosition", lastCall[3]>>)
                         /\ e.bb.x = b.bb.x + Mul(b.velocity.x, lastCall[3])
                         /\ e.bb.y = b.bb.y + Mul(b.velocity.y, lastCall[3]))
    /\ [](lastCall[1] = "Game.render" =>
            \A i \in DOMAIN game.entities : InLog(<<"Entity.render", i>>))

\* a Game.update that moved an entity that was already dead, in a
\* collection of two
C11_Witness ==
    /\ lastCall[1] = "Game.update"
    /\ Len(game.entities) = 2
    /\ \E i \in DOMAIN game.entities :
          /\ before.entities[i].finished
          /\ game.entities[i].finished
          /\ game.entities[i].bb.y # before.entities[i].bb.y
          /\ InLog(<<i, "updatePosition", lastCall[3]>>)

\* a Game.render that rendered a dead entity
C11_WitnessRender ==
    /\ lastCall[1] = "Game.render"
    /\ \E i \in DOMAIN game.entities :
          game.entities[i].finished /\ InLog(<<"Entity.render", i>>)

\* C12: the tile at row r, col c has x = c * 24 and y = r * 24; no call
\* changes a tile; Tile.render makes a draw call iff the tile's id is 1.
C12_Tiles ==
    /\ [](\A r \in DOMAIN game.tiles : \A c \in DOMAIN game.tiles[r] :
            LET t == game.tiles[r][c]
            IN  /\ t.row = r - 1
                /\ t.col = c - 1
                /\ t.x = t.col * Num(24)
                /\ t.y = t.row * Num(24))
    /\ [][game'.tiles = game.tiles]_vars
    /\ [](lastCall[1] = "Game.render" =>
            \A k \in DOMAIN callLog :
               /\ callLog[k][1] = "Tile.render" =>
                     LET t == game.tiles[callLog[k][2] + 1][callLog[k][3] + 1]
                     IN  (t.id = 1) <=>
                            /\ k < Len(callLog)
                            /\ callLog[k + 1] =
                                  <<"strokeRect", t.x, t.y, Num(24), Num(24)>>
               /\ callLog[k][1] = "strokeRect" =>
                     (k > 1 /\ callLog[k - 1][1] = "Tile.render"))

\* a Game.render, after an update, of a grid with tiles of id 0, 1 and 3
C12_Witness ==
    /\ lastCall[1] = "Game.render"
    /\ calls >= 2
    /\ \E r \in DOMAIN game.tiles : \E c \in DOMAIN game.tiles[r] :
          game.tiles[r][c].id = 3
    /\ \E r \in DOMAIN game.tiles : \E c \in DOMAIN game.tiles[r] :
          game.tiles[r][c].id = 0
    /\ \E k \in DOMAIN callLog : callLog[k][1] = "strokeRect"

\* the calls Entity.update(dt) is claimed to make on entity i, found as b:
\* the move, then the collision query and one onEntityCollide per colliding
\* entity, in order, all at the position after the move
UpdateCalls(i, b, dt) ==
    LET px == b.bb.x + Mul(b.velocity.x, dt)
        py == b.bb.y + Mul(b.velocity.y, dt)
    IN  <<<<i, "updatePosition", dt>>, <<i, "getCollidingEntities", px, py>>>>
           \o [k \in 1..Len(b.colliding) |->
                  <<i, "onEntityCollide", b.colliding[k], px, py>>]

\* C13: Entity.update moves the entity before it handles events, so the
\* collision query and every onEntityCollide see the position after the
\* move; handleEvents calls onEntityCollide once per colliding entity, in
\* order; Game.update tests the cull after the entity's update, on the y
\* after the move.
C13_MoveThenEventsThenCull ==
    /\ lastCall[1] = "update" =>
          callLog = UpdateCalls(lastCall[2], before.entities[lastCall[2]],
                                lastCall[3])
    /\ lastCall[1] = "handleEvents" =>
          callLog = Tail(UpdateCalls(lastCall[2],
                                     before.entities[lastCall[2]], 0))
    /\ lastCall[1] = "Game.update" =>
          \A i \in DOMAIN before.entities :
             LET b == before.entities[i]
                 py == b.bb.y + Mul(b.velocity.y, lastCall[3])
                 mine == SelectSeq(callLog, LAMBDA c : c[1] = i)
             IN  mine = UpdateCalls(i, b, lastCall[3])
                           \o <<<<i, "cull test", py>>>>
                           \o (IF py > BottomLine(before)
                               THEN <<<<i, "die">>>> ELSE <<>>)

\* a Game.update with dt > 0 of a moving entity that collides with two
\* others
C13_Witness ==
    /\ lastCall[1] = "Game.update"
    /\ lastCall[3] > 0
    /\ \E i \in DOMAIN game.entities :
          /\ Len(game.entities[i].colliding) = 2
          /\ game.entities[i].bb.y # before.entities[i].bb.y
          /\ InLog(<<i, "onEntityCollide", 1,
                     game.entities[i].bb.x, game.entities[i].bb.y>>)

\* C16: Game.render renders every tile in row-major order, then every
\* entity in collection order; no tile comes after an entity.
C16_RenderOrder ==
    lastCall[1] = "Game.render" =>
        LET tileCalls == SelectSeq(callLog, LAMBDA c : c[1] = "Tile.render")
            entityCalls ==
                SelectSeq(callLog, LAMBDA c : c[1] = "Entity.render")
        IN  /\ \A r \in DOMAIN game.tiles : \A c \in DOMAIN game.tiles[r] :
                  \E k \in DOMAIN tileCalls :
                     tileCalls[k] = <<"Tile.render", r - 1, c - 1>>
            /\ \A k, l \in DOMAIN tileCalls :
                  k < l => \/ tileCalls[k][2] < tileCalls[l][2]
                           \/ /\ tileCalls[k][2] = tileCalls[l][2]
                              /\ tileCalls[k][3] < tileCalls[l][3]
            /\ entityCalls =
                  [i \in 1..Len(game.entities) |-> <<"Entity.render", i>>]
            /\ \A k, l \in DOMAIN callLog :
                  (k < l /\ callLog[k][1] = "Entity.render")
                     => callLog[l][1] = "Entity.render"

\* a Game.render of a grid of two rows and two columns with two entities
C16_Witness ==
    /\ lastCall[1] = "Game.render"
    /\ Len(game.tiles) = 2
    /\ Len(game.tiles[1]) = 2
    /\ Len(game.entities) = 2
    /\ Len(callLog) >= 6


\* C14: the first frame time is min(timestamp / 1000, MAX_FRAME_TIME),
\* previousTime being 0; after every call of loop previousTime is the
\* timestamp of that call, so every later frame time is computed from the
\* gap to the timestamp of the call just before.
C14_PreviousTime ==
    /\ [][(pc = "pending" /\ pc' = "while") =>
            /\ frameTime' =
                  IF frames = 0
                  THEN Min(currentTime' \div 1000, MAX_FRAME_TIME)
                  ELSE Min((currentTime' - currentTime) \div 1000,
                           MAX_FRAME_TIME)
            /\ accumulator' = accumulator + frameTime']_vars
    /\ [](frames = 0 => previousTime = 0)
    /\ []((pc = "pending" /\ frames > 0) => previousTime = currentTime)

\* the second call of loop has just been entered, after a first call with a
\* non-zero timestamp, with a gap short enough not to be clamped
C14_Witness ==
    /\ frames = 2
    /\ pc = "while"
    /\ trace = <<>>
    /\ previousTime > 0
    /\ currentTime > previousTime
    /\ frameTime = (currentTime - previousTime) \div 1000
    /\ frameTime < MAX_FRAME_TIME

NumRequests(tr) ==
    Cardinality({i \in DOMAIN tr : tr[i][1] = "requestAnimationFrame"})

\* C15: a call of loop requests exactly one next frame, as its last step,
\* after its updates, its render and the assignment of previousTime; so at
\* most one frame callback is pending, none while loop runs, and one
\* whenever loop is not running.
C15_OnePendingFrame ==
    /\ [](/\ pendingFrames \in {0, 1}
          /\ pc = "pending" <=> pendingFrames = 1
          /\ NumRequests(trace) <= 1
          /\ (pc = "pending" /\ frames > 0) =>
                /\ NumRequests(trace) = 1
                /\ trace[Len(trace)][1] = "requestAnimationFrame"
                /\ NumRenders(trace) = 1
                /\ previousTime = currentTime
          /\ pc # "pending" => NumRequests(trace) = 0)
    /\ [][pendingFrames' > pendingFrames =>
            /\ pc = "rendered"
            /\ pc' = "pending"
            /\ pendingFrames' = pendingFrames + 1
            /\ previousTime' = currentTime]_vars

\* the second call of loop has returned, and one frame is pending again
C15_Witness ==
    /\ pc = "pending"
    /\ frames >= 2
    /\ pendingFrames = 1
    /\ NumUpdates(trace) >= 1
    /\ trace[Len(trace)][1] = "requestAnimationFrame"

\* C17, as claimed, for boxes constructed with sizes >= 0: no call leaves a
\* box with a negative width or height.
C17_AsClaimed ==
    [][(NonNegative(boxA) /\ NonNegative(boxB))
          => (NonNegative(boxA') /\ NonNegative(boxB'))]_vars

C19_AsClaimed ==
    pc # "unloaded" =>
        /\ Len(game.tiles) = Len(StaticMap)
        /\ \A r \in DOMAIN game.tiles :
              Len(game.tiles[r]) = Len(StaticMap[r])
        /\ Len(game.tiles) * Tile_size = Len(StaticMap) * Num(24)

\* what main builds: the rows of the map, then one empty row
C19_TrailingRow ==
    pc # "unloaded" =>
        /\ Len(game.tiles) = Len(StaticMap) + 1
        /\ \A r \in DOMAIN StaticMap :
              Len(game.tiles[r]) = Len(StaticMap[r])
        /\ game.tiles[Len(game.tiles)] = <<>>

============================================================================
